---- MODULE Spec2Model ----
(***************************************************************************)
(* Queue engine of the barber-queue backend: the Customer collection       *)
(* (backend/models/Customer.js) and the handlers of                        *)
(* backend/controllers/queueController.js that read and write it.          *)
(*                                                                         *)
(* A queue entry is a Customer document; its entry id is the document's    *)
(* _id.  Documents are never deleted, so the collection is a sequence and  *)
(* the _id of a document is its index.                                     *)
(***************************************************************************)
EXTENDS Integers, Sequences, FiniteSets, TLC

\* ---------------------------------------------------------------- bounds
NumCustomers == 2          \* customer accounts (one e-mail each) of Spec and SpecRace
MaxToken == 2              \* joins that would hand out a larger ticket are not taken
MaxOps == 5                \* queue operations per behaviour of SpecThree
MaxClock == 1              \* instants new Date() can return: 1..MaxClock
MaxListed == 2              \* documents per collection in the directories SpecNearby draws
Home == 100000              \* position (metres north of the equator) the directories lie around
MaxWrites == 2             \* a handler's store writes that SpecFault can make fail: the first MaxWrites
MaxListeners == 2          \* registrations of one callback on the socket that SpecRealtime follows
Noon == 720                \* the time of day of SpecNearby's queries, in minutes after midnight

\* ------------------------------------------------------------- constants
MainShop == "main-shop"
Shops == {MainShop, "s1"}
Emails == 1..NumCustomers
EntryIds == 1..(NumCustomers + 1)   \* well-formed ObjectIds; the last one is never stored
EmailsThree == 1..(NumCustomers + 1)
AvgServiceTime == 20
NoToken == -1              \* tokenNumber absent from the document (undefined)
NullToken == 0             \* tokenNumber stored as null
NaN == -2                  \* undefined + 1
NoDate == 0                \* timestamp field absent
DefaultRadius == 5000      \* metres, when the query names no radius
QueryLimit == 50           \* .limit(50) of each of the two $near queries
MaxRadius == 50000         \* metres, the largest radius a discovery query may name
NoRadius == -1             \* the radius parameter absent from the query
QuarterMeridian == 10007543  \* latitude 90 in metres from the equator (R = 6371 km)
MaxReconnectAttempts == 5  \* this.maxReconnectAttempts
OpeningDefault == 540      \* '09:00', as minutes after midnight
ClosingDefault == 1200     \* '20:00'
Times == 1..MaxClock       \* values of new Date()
ActiveStatuses == {"waiting", "in-service"}
TerminalStatuses == {"completed", "cancelled"}

VARIABLES
  docs,        \* the Customer collection: sequence of documents, _id = index
  resp,        \* the HTTP response of the most recent handler, with its request
  emitted,     \* the socket events the most recent handler emitted
  highTicket,  \* per shop, the largest ticket number a Join response has carried
  jreq,        \* in-flight joinQueue calls of the interleaved specification
  ops,         \* queue operations that have changed the collection (SpecThree)
  calls,       \* in-flight completeService and cancelQueue calls (SpecStale)
  barbers,     \* the Barber collection (shops registered through sign-up)
  barberShops, \* the BarberShop collection (shops registered by hand)
  nearby,      \* the most recent GET /api/barbers/nearby: its query and response
  client       \* the browser's realtime service, its socket and its subscriptions

\* the shop directory and the discovery query
directory == <<barbers, barberShops, nearby>>

vars ==
  <<docs, resp, emitted, highTicket, jreq, ops, calls, barbers, barberShops, nearby, client>>

\* ---------------------------------------------------------------- helpers
SetMax(S) == CHOOSE x \in S : \A y \in S : y <= x

Ids(D) == DOMAIN D

ByEmail(D, e) == {i \in Ids(D) : D[i].email = e}

\* Customer.create({name, email, password, phone}) with the schema defaults
NewCustomer(e) ==
  [email |-> e, shopId |-> MainShop, status |-> "waiting",
   tokenNumber |-> NoToken, queuePosition |-> 0, estimatedWaitTime |-> 0,
   serviceStartedAt |-> NoDate, serviceCompletedAt |-> NoDate]

\* pre('save'): the wait estimate is derived only for a new document with a position
PreSave(d, isNew) ==
  IF isNew /\ d.queuePosition # 0
  THEN [d EXCEPT !.estimatedWaitTime = d.queuePosition * AvgServiceTime]
  ELSE d

\* countDocuments({shopId, status: {$in: ['waiting','in-service']}})
QueueCount(D, s) ==
  Cardinality({i \in Ids(D) : D[i].shopId = s /\ D[i].status \in ActiveStatuses})

WaitingIds(D, s) == {i \in Ids(D) : D[i].shopId = s /\ D[i].status = "waiting"}

\* getNextTokenNumber: findOne({shopId}).sort({tokenNumber: -1}); numbers sort
\* above null and absent, which compare equal, so without a numbered document
\* the store may return any document of the shop.
NextTokenNumbers(D, s) ==
  LET inShop == {i \in Ids(D) : D[i].shopId = s}
      nums   == {D[i].tokenNumber : i \in {j \in inShop : D[j].tokenNumber > 0}}
  IN  IF inShop = {} THEN {1}
      ELSE IF nums # {} THEN {SetMax(nums) + 1}
      ELSE {IF D[i].tokenNumber = NullToken THEN 1 ELSE NaN : i \in inShop}

\* sorts by queuePosition descending
SortedWaitingDescending(D, s) ==
  LET W == WaitingIds(D, s)
      n == Cardinality(W)
  IN  {q \in [1..n -> W] :
         /\ \A i, j \in 1..n : i # j => q[i] # q[j]
         /\ \A i, j \in 1..n : i < j => D[q[i]].queuePosition >= D[q[j]].queuePosition}

\* Customer.find({shopId, status: 'waiting'}).sort({queuePosition: 1}): every
\* order of the waiting documents that is non-decreasing in queuePosition
\* (the store leaves the order of equal keys open)
SortedWaiting(D, s) ==
  LET W == WaitingIds(D, s)
      n == Cardinality(W)
  IN  {q \in [1..n -> W] :
         /\ \A i, j \in 1..n : i # j => q[i] # q[j]
         /\ \A i, j \in 1..n : i < j => D[q[i]].queuePosition <= D[q[j]].queuePosition}

\* updateQueuePositions: the loop over the sorted list q, each document saved
\* with queuePosition = i + 1 and estimatedWaitTime = (i + 1) * 20
ApplyPositions(D, q) ==
  [i \in Ids(D) |->
     IF \E k \in DOMAIN q : q[k] = i
     THEN LET k == CHOOSE k \in DOMAIN q : q[k] = i
          IN  [D[i] EXCEPT !.queuePosition = k,
                           !.estimatedWaitTime = k * AvgServiceTime]
     ELSE D[i]]

UpdateQueuePositions(D, s) == {ApplyPositions(D, q) : q \in SortedWaiting(D, s)}

\* unique partial index {shopId, tokenNumber} over numeric tokens
TokenIndexAllows(D, self, s, tok) ==
  \A i \in Ids(D) \ {self} : ~(D[i].shopId = s /\ D[i].tokenNumber = tok)

JoinUpdate(d, s, tok, pos) ==
  [d EXCEPT !.shopId = s, !.tokenNumber = tok, !.queuePosition = pos,
            !.status = "waiting"]

\* always inserts a fresh document (a create in place of the upsert by e-mail)
FindOneAndUpdateInsertOnly(D, e, s, tok, pos) ==
  IF TokenIndexAllows(D, 0, s, tok)
  THEN [ok |-> TRUE, id |-> Len(D) + 1,
        docs |-> Append(D, JoinUpdate(NewCustomer(e), s, tok, pos))]
  ELSE [ok |-> FALSE, id |-> 0, docs |-> D]

\* Customer.findOneAndUpdate({email}, {...}, {new: true, upsert: true}):
\* updates the document with that e-mail, inserts one when there is none;
\* the write is rejected (E11000) when it would break the token index.
FindOneAndUpdate(D, e, s, tok, pos) ==
  IF ByEmail(D, e) # {}
  THEN LET i == CHOOSE j \in ByEmail(D, e) : TRUE
       IN  IF TokenIndexAllows(D, i, s, tok)
           THEN [ok |-> TRUE, id |-> i,
                 docs |-> [D EXCEPT ![i] = JoinUpdate(D[i], s, tok, pos)]]
           ELSE [ok |-> FALSE, id |-> 0, docs |-> D]
  ELSE IF TokenIndexAllows(D, 0, s, tok)
       THEN [ok |-> TRUE, id |-> Len(D) + 1,
             docs |-> Append(D, JoinUpdate(NewCustomer(e), s, tok, pos))]
       ELSE [ok |-> FALSE, id |-> 0, docs |-> D]

\* res.status(code).json(...): the handler, the entry the response is about
\* (0 when it names none), the authenticated caller (0 on the open routes),
\* the HTTP status and the kind of error the message states
Response(op, id, by, shop, code, err) ==
  [op |-> op, id |-> id, by |-> by, code |-> code, err |-> err]

Event(type, id, shop) == [room |-> shop, type |-> type, customerId |-> id, shopId |-> shop]

\* a joinQueue call that has not started: its awaits are at lines 29, 32 and 38
IdleJoin ==
  [pc |-> "idle", shop |-> MainShop, tokenNumber |-> NoToken, queueCount |-> 0,
   code |-> 0]

\* no discovery query has been answered
NoQuery == [code |-> 0, origin |-> 0, radius |-> 0, now |-> 0, data |-> <<>>]

\* the handlers whose awaits SpecStale interleaves
Handlers == {"complete", "cancel"}

\* a completeService or cancelQueue call that has not started.  A running call
\* holds the document findById returned (snap), the list the recompute's find
\* returned (q) with the documents as read (qsnap), and the loop index k.
IdleCall ==
  [pc |-> "idle", id |-> 0, by |-> 0, t |-> NoDate, shop |-> MainShop,
   snap |-> NewCustomer(0), q |-> <<>>, qsnap |-> <<>>, k |-> 0]

\* new RealtimeService(): no socket, nothing polled.  link is the state of the
\* socket's connection (down; open, when the manager has reconnected and the
\* namespace has not; connected), rooms the shop rooms the server holds the
\* socket in, sendBuffer the join-shop packets emitted before the namespace
\* connected, listeners the number of times each subscription's callback is
\* registered for queue-update, timers the interval timers running per shop,
\* and subscribed the shops the page has subscribed to and not unsubscribed.
NewRealtimeService ==
  [socket |-> FALSE, link |-> "down", isConnected |-> FALSE, usePolling |-> FALSE,
   reconnectAttempts |-> 0, pollingIntervals |-> {},
   timers |-> [s \in Shops |-> 0], listeners |-> [s \in Shops |-> 0],
   rooms |-> {}, sendBuffer |-> {}, subscribed |-> {}]

\* ------------------------------------------------------------------- Init
Init ==
  /\ docs = <<>>
  /\ resp = Response("none", 0, 0, MainShop, 0, "none")
  /\ emitted = <<>>
  /\ highTicket = [s \in Shops |-> 0]
  /\ jreq = [e \in EmailsThree |-> IdleJoin]
  /\ ops = 0
  /\ calls = [h \in Handlers |-> IdleCall]
  /\ barbers = <<>> /\ barberShops = <<>> /\ nearby = NoQuery
  /\ client = NewRealtimeService

\* ---------------------------------------------------------------- actions
\* POST /api/auth/customer/signup
Register(e) ==
  /\ e <= Len(docs) + 1          \* accounts are named in the order they sign up
  /\ IF ByEmail(docs, e) # {}
     THEN /\ docs' = docs
          /\ resp' = Response("register", 0, e, MainShop, 400, "CustomerExists")
     ELSE /\ docs' = Append(docs, PreSave(NewCustomer(e), TRUE))
          /\ resp' = Response("register", Len(docs) + 1, e, MainShop, 201, "none")
  /\ emitted' = <<>>
  /\ UNCHANGED <<highTicket, jreq>>

\* the body of joinQueue once the token and the count have been read
JoinWrite(e, s, tok, cnt) ==
  IF tok = NaN
  THEN \* CastError on tokenNumber: caught, 500
       /\ docs' = docs
       /\ resp' = Response("join", 0, e, s, 500, "ServerError")
       /\ emitted' = <<>>
       /\ highTicket' = highTicket
  ELSE LET r == FindOneAndUpdate(docs, e, s, tok, cnt + 1)
       IN  IF ~r.ok
           THEN /\ docs' = docs
                /\ resp' = Response("join", 0, e, s, 500, "ServerError")
                /\ emitted' = <<>>
                /\ highTicket' = highTicket
           ELSE /\ docs' = r.docs
                /\ resp' = Response("join", r.id, e, s, 201, "none")
                /\ emitted' = <<Event("customer-joined", r.id, s)>>
                /\ highTicket' = [highTicket EXCEPT
                                    ![s] = IF tok > @ THEN tok ELSE @]

\* POST /api/queue/join, by the authenticated customer with e-mail e
Join(e, s) ==
  /\ ByEmail(docs, e) # {}        \* protect: req.user is a stored customer
  /\ \E tok \in NextTokenNumbers(docs, s) :
       JoinWrite(e, s, tok, QueueCount(docs, s))
  /\ UNCHANGED jreq

\* lets an entry that is already in service be served again
ServeAllowedAnyActive(d) == d.status \in ActiveStatuses

\* serveCustomer line 326: only a waiting customer can be served
ServeAllowed(d) == d.status = "waiting"

\* also takes the entry out of the numbered positions
StartServiceClearPosition(d, t) ==
  [d EXCEPT !.status = "in-service", !.serviceStartedAt = t, !.queuePosition = 0]

\* customer.startService(): status and serviceStartedAt, then save(); the save
\* hook leaves a stored document's estimate alone
StartService(d, t) ==
  PreSave([d EXCEPT !.status = "in-service", !.serviceStartedAt = t], FALSE)

\* PATCH /api/queue/serve/:id
Serve(id, t) ==
  /\ IF id \notin Ids(docs)
     THEN /\ resp' = Response("serve", id, 0, MainShop, 404, "NotFound")
          /\ UNCHANGED docs
          /\ emitted' = <<>>
     ELSE IF ~ServeAllowed(docs[id])
     THEN /\ resp' = Response("serve", id, 0, docs[id].shopId, 400, "NotInWaitingState")
          /\ UNCHANGED docs
          /\ emitted' = <<>>
     ELSE /\ docs' = [docs EXCEPT ![id] = StartService(@, t)]
          /\ resp' = Response("serve", id, 0, docs[id].shopId, 200, "none")
          /\ emitted' = <<Event("customer-serving", id, docs[id].shopId)>>
  /\ UNCHANGED <<highTicket, jreq>>

\* PATCH /api/queue/complete/:id
Complete(id, t) ==
  /\ IF id \notin Ids(docs)
     THEN /\ resp' = Response("complete", id, 0, MainShop, 404, "NotFound")
          /\ UNCHANGED docs
          /\ emitted' = <<>>
     ELSE
          \* customer.completeService(), then updateQueuePositions(customer.shopId)
          /\ LET saved == [docs EXCEPT ![id] = [@ EXCEPT !.status = "completed",
                                                         !.serviceCompletedAt = t]]
             IN  docs' \in UpdateQueuePositions(saved, docs[id].shopId)
          /\ resp' = Response("complete", id, 0, docs[id].shopId, 200, "none")
          /\ emitted' = <<Event("customer-completed", id, docs[id].shopId)>>
  /\ UNCHANGED <<highTicket, jreq>>

\* tests the status before the ownership
CancelCheckStatusFirst(D, id, by) ==
  IF id \notin Ids(D) THEN 404
  ELSE IF D[id].status # "waiting" THEN 400
  ELSE IF D[id].email # by THEN 403
  ELSE 0

\* cancelQueue lines 118-139: the early returns, in the order the handler
\* takes them; 0 when the cancellation goes ahead
CancelCheck(D, id, by) ==
  IF id \notin Ids(D) THEN 404
  ELSE IF D[id].email # by THEN 403
  ELSE IF D[id].status # "waiting" THEN 400
  ELSE 0

CancelError(code) ==
  IF code = 404 THEN "NotFound" ELSE IF code = 403 THEN "Forbidden" ELSE "NotWaiting"

\* DELETE /api/queue/cancel/:id, by the authenticated customer with e-mail by
Cancel(id, by) ==
  /\ ByEmail(docs, by) # {}       \* protect: req.user is a stored customer
  /\ LET code == CancelCheck(docs, id, by)
     IN  IF code # 0
         THEN /\ resp' = Response("cancel", id, by,
                                  IF id \in Ids(docs) THEN docs[id].shopId ELSE MainShop,
                                  code, CancelError(code))
              /\ docs' = docs
              /\ emitted' = <<>>
         ELSE LET shopId == docs[id].shopId
                  saved  == [docs EXCEPT ![id] = [@ EXCEPT !.status = "cancelled",
                                                          !.tokenNumber = NullToken,
                                                          !.queuePosition = 0,
                                                          !.shopId = MainShop]]
              IN  /\ docs' \in UpdateQueuePositions(saved, shopId)
                  /\ resp' = Response("cancel", id, by, shopId, 200, "none")
                  /\ emitted' = <<Event("customer-cancelled", id, shopId)>>
  /\ UNCHANGED <<highTicket, jreq>>

\* Spec explores joins that hand out tickets up to MaxToken
TokenBound == \A i \in Ids(docs') : docs'[i].tokenNumber <= MaxToken

Next ==
  \/ \E e \in Emails : Register(e) /\ UNCHANGED <<ops, calls, directory, client>>
  \/ \E e \in Emails, s \in Shops : Join(e, s) /\ TokenBound /\ UNCHANGED <<ops, calls, directory, client>>
  \/ \E id \in EntryIds, t \in Times : Serve(id, t) /\ UNCHANGED <<ops, calls, directory, client>>
  \/ \E id \in EntryIds, t \in Times : Complete(id, t) /\ UNCHANGED <<ops, calls, directory, client>>
  \/ \E id \in EntryIds, by \in Emails : Cancel(id, by) /\ UNCHANGED <<ops, calls, directory, client>>

Spec == Init /\ [][Next]_vars

\* SpecThree: the same handlers with one more customer account, explored up to
\* MaxOps queue operations that change the collection.
OpsBound ==
  IF docs' = docs THEN ops' = ops ELSE ops < MaxOps /\ ops' = ops + 1

\* The shop the three customers of SpecThree queue at: one they pick, not the
\* schema's default.
JoinedShop == "s1"

NextThree ==
  \/ \E e \in EmailsThree : Register(e) /\ UNCHANGED <<ops, calls, directory, client>>
  \/ \E e \in EmailsThree : Join(e, JoinedShop) /\ OpsBound /\ UNCHANGED <<calls, directory, client>>
  \/ \E id \in EmailsThree, t \in Times : Serve(id, t) /\ OpsBound /\ UNCHANGED <<calls, directory, client>>
  \/ \E id \in EmailsThree, t \in Times : Complete(id, t) /\ OpsBound /\ UNCHANGED <<calls, directory, client>>
  \/ \E id \in EmailsThree : Cancel(id, id) /\ OpsBound /\ UNCHANGED <<calls, directory, client>>

SpecThree == Init /\ [][NextThree]_vars

\* SpecRace: joinQueue calls of the registered customers, one each, interleaved
\* at their awaits (getNextTokenNumber, countDocuments, findOneAndUpdate).
InitRace ==
  /\ docs = [e \in EmailsThree |-> PreSave(NewCustomer(e), TRUE)]
  /\ resp = Response("none", 0, 0, MainShop, 0, "none")
  /\ emitted = <<>>
  /\ highTicket = [s \in Shops |-> 0]
  /\ jreq = [e \in EmailsThree |-> IdleJoin]
  /\ ops = 0
  /\ calls = [h \in Handlers |-> IdleCall]
  /\ barbers = <<>> /\ barberShops = <<>> /\ nearby = NoQuery
  /\ client = NewRealtimeService

\* line 29: await Customer.getNextTokenNumber(shopId)
JoinReadToken(e, s) ==
  /\ jreq[e].pc = "idle"
  /\ \E tok \in NextTokenNumbers(docs, s) :
       jreq' = [jreq EXCEPT ![e] = [pc |-> "count", shop |-> s, tokenNumber |-> tok,
                                    queueCount |-> 0, code |-> 0]]
  /\ UNCHANGED <<docs, resp, emitted, highTicket, ops, calls, directory, client>>

\* line 32: await Customer.countDocuments(...)
JoinReadCount(e) ==
  /\ jreq[e].pc = "count"
  /\ jreq' = [jreq EXCEPT ![e] = [@ EXCEPT !.pc = "write",
                                           !.queueCount = QueueCount(docs, jreq[e].shop)]]
  /\ UNCHANGED <<docs, resp, emitted, highTicket, ops, calls, directory, client>>

\* lines 38-79: await Customer.findOneAndUpdate(...), emit, respond
JoinFinish(e) ==
  /\ jreq[e].pc = "write"
  /\ JoinWrite(e, jreq[e].shop, jreq[e].tokenNumber, jreq[e].queueCount)
  /\ jreq' = [jreq EXCEPT ![e] = [@ EXCEPT !.pc = "done", !.code = resp'.code]]
  /\ UNCHANGED <<ops, calls, directory, client>>

NextRace ==
  \/ \E e \in EmailsThree, s \in Shops : JoinReadToken(e, s)
  \/ \E e \in EmailsThree : JoinReadCount(e)
  \/ \E e \in EmailsThree : JoinFinish(e)

SpecRace == InitRace /\ [][NextRace]_vars

\* SpecFault: the handlers of Spec, and the same handlers with one of their
\* store writes rejected (the awaited promise throws into the handler's catch).
\* The writes of a handler are numbered in the order it issues them.  Customers
\* queue at JoinedShop.

\* joinQueue with findOneAndUpdate (its only write) failing
JoinFailing(e, s) ==
  /\ ByEmail(docs, e) # {}
  /\ docs' = docs
  /\ resp' = Response("join", 0, e, s, 500, "ServerError")
  /\ emitted' = <<>>
  /\ UNCHANGED <<highTicket, jreq>>

\* serveCustomer with the save of startService (its only write) failing
ServeFailing(id, t) ==
  /\ id \in Ids(docs) /\ ServeAllowed(docs[id])
  /\ docs' = docs
  /\ resp' = Response("serve", id, 0, docs[id].shopId, 500, "ServerError")
  /\ emitted' = <<>>
  /\ UNCHANGED <<highTicket, jreq>>

\* the documents after write w of (save of the entry, then the saves of the
\* position loop over q) has failed: the writes before it are stored
StoredBeforeFailure(D, saved, q, w) ==
  IF w = 1 THEN D ELSE ApplyPositions(saved, SubSeq(q, 1, w - 2))

\* completeService with its write number w failing: 1 is the save of
\* customer.completeService(), 1 + k the k-th save of updateQueuePositions
CompleteFailing(id, t, w) ==
  /\ id \in Ids(docs)
  /\ LET saved == [docs EXCEPT ![id] = [@ EXCEPT !.status = "completed",
                                                 !.serviceCompletedAt = t]]
     IN  \E q \in SortedWaiting(saved, docs[id].shopId) :
            /\ w <= 1 + Len(q)
            /\ docs' = StoredBeforeFailure(docs, saved, q, w)
  /\ resp' = Response("complete", id, 0, docs[id].shopId, 500, "ServerError")
  /\ emitted' = <<>>
  /\ UNCHANGED <<highTicket, jreq>>

\* cancelQueue with its write number w failing: 1 is customer.save(), 1 + k the
\* k-th save of updateQueuePositions
CancelFailing(id, by, w) ==
  /\ ByEmail(docs, by) # {}
  /\ CancelCheck(docs, id, by) = 0
  /\ LET shopId == docs[id].shopId
         saved  == [docs EXCEPT ![id] = [@ EXCEPT !.status = "cancelled",
                                                 !.tokenNumber = NullToken,
                                                 !.queuePosition = 0,
                                                 !.shopId = MainShop]]
     IN  /\ \E q \in SortedWaiting(saved, shopId) :
               /\ w <= 1 + Len(q)
               /\ docs' = StoredBeforeFailure(docs, saved, q, w)
         /\ resp' = Response("cancel", id, by, shopId, 500, "ServerError")
  /\ emitted' = <<>>
  /\ UNCHANGED <<highTicket, jreq>>

Writes == 1..MaxWrites

NextFault ==
  \/ \E e \in Emails : Register(e) /\ UNCHANGED <<ops, calls, directory, client>>
  \/ \E e \in Emails : Join(e, JoinedShop) /\ TokenBound /\ UNCHANGED <<ops, calls, directory, client>>
  \/ \E id \in EntryIds, t \in Times : Serve(id, t) /\ UNCHANGED <<ops, calls, directory, client>>
  \/ \E id \in EntryIds, t \in Times : Complete(id, t) /\ UNCHANGED <<ops, calls, directory, client>>
  \/ \E id \in EntryIds, by \in Emails : Cancel(id, by) /\ UNCHANGED <<ops, calls, directory, client>>
  \/ \E e \in Emails : JoinFailing(e, JoinedShop) /\ UNCHANGED <<ops, calls, directory, client>>
  \/ \E id \in EntryIds, t \in Times : ServeFailing(id, t) /\ UNCHANGED <<ops, calls, directory, client>>
  \/ \E id \in EntryIds, t \in Times, w \in Writes : CompleteFailing(id, t, w) /\ UNCHANGED <<ops, calls, directory, client>>
  \/ \E id \in EntryIds, by \in Emails, w \in Writes : CancelFailing(id, by, w) /\ UNCHANGED <<ops, calls, directory, client>>

SpecFault == Init /\ [][NextFault]_vars

\* SpecStale: completeService and cancelQueue calls, at most one of each in
\* flight, interleaved at their awaits (findById, save, the find of
\* updateQueuePositions, each save of its loop), with serve calls between their
\* steps, on a queue the customers have joined.

\* document.save() of a document read earlier: the update sets the paths the
\* handler changed since the read, and leaves every other stored path alone
SaveModified(stored, snap, new) ==
  [f \in DOMAIN stored |-> IF new[f] # snap[f] THEN new[f] ELSE stored[f]]

\* line 368: await Customer.findById(id), and the 404 return
CompleteRead(id, t) ==
  /\ calls["complete"].pc = "idle"
  /\ IF id \notin Ids(docs)
     THEN /\ resp' = Response("complete", id, 0, MainShop, 404, "NotFound")
          /\ emitted' = <<>>
          /\ UNCHANGED calls
     ELSE /\ calls' = [calls EXCEPT !["complete"] =
                         [IdleCall EXCEPT !.pc = "save", !.id = id, !.t = t,
                                          !.shop = docs[id].shopId, !.snap = docs[id]]]
          /\ UNCHANGED <<resp, emitted>>
  /\ UNCHANGED <<docs, highTicket, jreq, ops, directory, client>>

\* line 377: await customer.completeService()
CompleteSave ==
  LET c == calls["complete"]
  IN  /\ c.pc = "save"
      /\ docs' = [docs EXCEPT ![c.id] =
                    SaveModified(@, c.snap, [c.snap EXCEPT !.status = "completed",
                                                           !.serviceCompletedAt = c.t])]
      /\ calls' = [calls EXCEPT !["complete"].pc = "find"]
      /\ UNCHANGED <<resp, emitted, highTicket, jreq, ops, directory, client>>

\* lines 116-139: await Customer.findById(id), and the early returns
CancelRead(id, by) ==
  /\ calls["cancel"].pc = "idle"
  /\ ByEmail(docs, by) # {}
  /\ LET code == CancelCheck(docs, id, by)
     IN  IF code # 0
         THEN /\ resp' = Response("cancel", id, by, MainShop, code, CancelError(code))
              /\ emitted' = <<>>
              /\ UNCHANGED calls
         ELSE /\ calls' = [calls EXCEPT !["cancel"] =
                             [IdleCall EXCEPT !.pc = "save", !.id = id, !.by = by,
                                              !.shop = docs[id].shopId, !.snap = docs[id]]]
              /\ UNCHANGED <<resp, emitted>>
  /\ UNCHANGED <<docs, highTicket, jreq, ops, directory, client>>

\* lines 141-148: the four assignments and await customer.save()
CancelSave ==
  LET c == calls["cancel"]
  IN  /\ c.pc = "save"
      /\ docs' = [docs EXCEPT ![c.id] =
                    SaveModified(@, c.snap, [c.snap EXCEPT !.status = "cancelled",
                                                           !.tokenNumber = NullToken,
                                                           !.queuePosition = 0,
                                                           !.shopId = MainShop])]
      /\ calls' = [calls EXCEPT !["cancel"].pc = "find"]
      /\ UNCHANGED <<resp, emitted, highTicket, jreq, ops, directory, client>>

\* the emit and the 200 response that end a completeService or cancelQueue call
Finish(h) ==
  LET c == calls[h]
  IN  /\ resp' = Response(h, c.id, c.by, c.shop, 200, "none")
      /\ emitted' = <<Event(IF h = "complete" THEN "customer-completed"
                                              ELSE "customer-cancelled", c.id, c.shop)>>

\* lines 451-454: await Customer.find(...).sort(...); with nobody waiting the
\* loop is skipped and the handler goes on to emit and respond
RecomputeFind(h) ==
  /\ calls[h].pc = "find"
  /\ \E q \in SortedWaiting(docs, calls[h].shop) :
       IF Len(q) = 0
       THEN /\ Finish(h)
            /\ calls' = [calls EXCEPT ![h] = IdleCall]
       ELSE /\ calls' = [calls EXCEPT ![h] =
                           [@ EXCEPT !.pc = "loop", !.q = q, !.k = 1,
                                     !.qsnap = [k \in DOMAIN q |-> docs[q[k]]]]]
            /\ UNCHANGED <<resp, emitted>>
  /\ UNCHANGED <<docs, highTicket, jreq, ops, directory, client>>

\* lines 456-460: one pass of the loop, await waitingCustomers[i].save()
RecomputeSave(h) ==
  LET c == calls[h]
  IN  /\ c.pc = "loop"
      /\ docs' = [docs EXCEPT ![c.q[c.k]] =
                    SaveModified(@, c.qsnap[c.k],
                                 [c.qsnap[c.k] EXCEPT
                                    !.queuePosition = c.k,
                                    !.estimatedWaitTime = c.k * AvgServiceTime])]
      /\ IF c.k = Len(c.q)
         THEN /\ Finish(h)
              /\ calls' = [calls EXCEPT ![h] = IdleCall]
         ELSE /\ calls' = [calls EXCEPT ![h].k = c.k + 1]
              /\ UNCHANGED <<resp, emitted>>
      /\ UNCHANGED <<highTicket, jreq, ops, directory, client>>

\* the customers have signed up and joined the queue of JoinedShop one after
\* the other: the state Spec reaches by Register and Join for each in turn
InitStale ==
  /\ docs = [e \in Emails |->
               JoinUpdate(PreSave(NewCustomer(e), TRUE), JoinedShop, e, e)]
  /\ resp = Response("join", NumCustomers, NumCustomers, JoinedShop, 201, "none")
  /\ emitted = <<Event("customer-joined", NumCustomers, JoinedShop)>>
  /\ highTicket = [s \in Shops |-> IF s = JoinedShop THEN NumCustomers ELSE 0]
  /\ jreq = [e \in EmailsThree |-> IdleJoin]
  /\ ops = 0
  /\ calls = [h \in Handlers |-> IdleCall]
  /\ barbers = <<>> /\ barberShops = <<>> /\ nearby = NoQuery
  /\ client = NewRealtimeService

NextStale ==
  \/ \E id \in EntryIds, t \in Times : Serve(id, t) /\ UNCHANGED <<ops, calls, directory, client>>
  \/ \E id \in EntryIds, t \in Times : CompleteRead(id, t)
  \/ CompleteSave
  \/ \E id \in EntryIds, by \in Emails : CancelRead(id, by)
  \/ CancelSave
  \/ \E h \in Handlers : RecomputeFind(h)
  \/ \E h \in Handlers : RecomputeSave(h)

SpecStale == InitStale /\ [][NextStale]_vars

\* three customers have signed up and joined the queue of JoinedShop one after
\* the other
InitRemovals ==
  /\ docs = [e \in EmailsThree |->
               JoinUpdate(PreSave(NewCustomer(e), TRUE), JoinedShop, e, e)]
  /\ resp = Response("join", NumCustomers + 1, NumCustomers + 1, JoinedShop, 201, "none")
  /\ emitted = <<Event("customer-joined", NumCustomers + 1, JoinedShop)>>
  /\ highTicket = [s \in Shops |-> IF s = JoinedShop THEN NumCustomers + 1 ELSE 0]
  /\ jreq = [e \in EmailsThree |-> IdleJoin]
  /\ ops = 0
  /\ calls = [h \in Handlers |-> IdleCall]
  /\ barbers = <<>> /\ barberShops = <<>> /\ nearby = NoQuery
  /\ client = NewRealtimeService

\* a cancelQueue call and a completeService call at a time, their store calls
\* interleaved
NextRemovals ==
  \/ \E id \in EntryIds, t \in Times : CompleteRead(id, t)
  \/ CompleteSave
  \/ \E id \in EntryIds, by \in EmailsThree : CancelRead(id, by)
  \/ CancelSave
  \/ \E h \in Handlers : RecomputeFind(h)
  \/ \E h \in Handlers : RecomputeSave(h)

SpecRemovals == InitRemovals /\ [][NextRemovals]_vars

\* the customer who joins while a removal runs: signed up, not yet in a queue
Joiner == NumCustomers + 1

\* the other customers are waiting at JoinedShop, joined one after the other
InitJoinRemoval ==
  /\ docs = [e \in EmailsThree |->
               IF e = Joiner THEN PreSave(NewCustomer(e), TRUE)
               ELSE JoinUpdate(PreSave(NewCustomer(e), TRUE), JoinedShop, e, e)]
  /\ resp = Response("join", NumCustomers, NumCustomers, JoinedShop, 201, "none")
  /\ emitted = <<Event("customer-joined", NumCustomers, JoinedShop)>>
  /\ highTicket = [s \in Shops |-> IF s = JoinedShop THEN NumCustomers ELSE 0]
  /\ jreq = [e \in EmailsThree |-> IdleJoin]
  /\ ops = 0
  /\ calls = [h \in Handlers |-> IdleCall]
  /\ barbers = <<>> /\ barberShops = <<>> /\ nearby = NoQuery
  /\ client = NewRealtimeService

\* one joinQueue call by Joiner, its store calls interleaved with those of
\* cancelQueue and completeService calls that run one at a time
NextJoinRemoval ==
  \/ JoinReadToken(Joiner, JoinedShop)
  \/ JoinReadCount(Joiner)
  \/ JoinFinish(Joiner)
  \/ \E id \in EntryIds, t \in Times :
        calls["cancel"].pc = "idle" /\ CompleteRead(id, t)
  \/ CompleteSave
  \/ \E id \in EntryIds, by \in EmailsThree :
        calls["complete"].pc = "idle" /\ CancelRead(id, by)
  \/ CancelSave
  \/ \E h \in Handlers : RecomputeFind(h)
  \/ \E h \in Handlers : RecomputeSave(h)

SpecJoinRemoval == InitJoinRemoval /\ [][NextJoinRemoval]_vars

\* ---------------------------------------------------------- shop discovery
\* GET /api/barbers/nearby.  Coordinates are taken on one meridian, where the
\* great-circle distance of getDistance is the difference of the two positions;
\* a position is a distance from the equator in metres (latitude 0 is 0).

Abs(x) == IF x < 0 THEN -x ELSE x

Min(a, b) == IF a < b THEN a ELSE b

\* the distance between a stored location and the origin, in metres, before
\* any rounding; $near ranks and bounds by it
ExactDistance(pos, origin) == Abs(pos - origin)

\* getDistance: Math.round(distance * 10) / 10 kilometres, held as a number of
\* tenths of a kilometre
GetDistance(pos, origin) == (ExactDistance(pos, origin) + 50) \div 100

\* the filter of the Barber query, the location condition apart
BarberVisible(b) == b.status = "active" /\ b.isTestData # TRUE

\* the filter of the BarberShop query, the location condition apart
ShopVisible(b) == b.isActive = TRUE /\ b.isTestData # TRUE

\* the documents of collection C that pass the filter Visible
VisibleBarbers(C) == {C[i] : i \in {j \in DOMAIN C : BarberVisible(C[j])}}

VisibleShops(C) == {C[i] : i \in {j \in DOMAIN C : ShopVisible(C[j])}}

\* the documents among V that a $near query with $maxDistance matches
Matching(V, origin, maxDistance) ==
  {x \in V : ExactDistance(x.pos, origin) <= maxDistance}

\* $near returns its matches nearest first; documents at the same distance
\* come in an order the store chooses
RECURSIVE NearOrders(_, _)
NearOrders(S, origin) ==
  IF S = {} THEN {<<>>}
  ELSE LET nearest == {m \in S : \A x \in S :
                         ExactDistance(m.pos, origin) <= ExactDistance(x.pos, origin)}
       IN  UNION {{<<m>> \o rest : rest \in NearOrders(S \ {m}, origin)} : m \in nearest}

\* .limit(50)
Limit(q) == SubSeq(q, 1, Min(Len(q), QueryLimit))

\* Model.find({location: {$near ...}, ...}).limit(50)
FindNear(V, origin, maxDistance) ==
  {Limit(q) : q \in NearOrders(Matching(V, origin, maxDistance), origin)}

\* currentTime >= openingTime && currentTime <= closingTime, on 'HH:MM'
\* strings padded to two digits, which compare as the minutes they denote
IsWithinHours(shop, now) == now >= shop.openingTime /\ now <= shop.closingTime

\* shop.isOpen !== undefined ? shop.isOpen : isWithinHours.  The queries return
\* hydrated documents, and both schemas give isOpen the default true, so the
\* field is defined on every document the handler sees.
IsOpen(shop, now) ==
  IF "isOpen" \in DOMAIN shop THEN shop.isOpen ELSE IsWithinHours(shop, now)

\* one element of enrichedBarbers: the fields of the response that identify the
\* shop and place it (id, the collection it came from, distance, coordinates)
\* and its open status
Enrich(shop, isBarberModel, origin, now) ==
  [id |-> shop.id, shopId |-> shop.shopId, isBarberModel |-> isBarberModel,
   distance |-> GetDistance(shop.pos, origin), pos |-> shop.pos,
   isOpen |-> IsOpen(shop, now)]

\* leaves the list in the order of the two queries
NotSorted(list) == list

\* enrichedBarbers.sort((a, b) => a.distance - b.distance): a stable sort on
\* the distance field
RECURSIVE SortByDistance(_)
SortByDistance(list) ==
  IF list = <<>> THEN <<>>
  ELSE LET least == CHOOSE i \in DOMAIN list :
                      /\ \A j \in DOMAIN list : list[i].distance <= list[j].distance
                      /\ \A j \in 1..(i - 1) : list[j].distance > list[i].distance
       IN  <<list[least]>> \o
           SortByDistance(SubSeq(list, 1, least - 1) \o SubSeq(list, least + 1, Len(list)))

\* const maxDistance = radius ? parseInt(radius) : 5000
MaxDistance(radius) == IF radius = NoRadius THEN DefaultRadius ELSE radius

\* GET /api/barbers/nearby?lat=..&lng=..&radius=.., answered at time of day now
GetNearbyBarbers(origin, radius, now) ==
  /\ IF origin = 0 \/ Abs(origin) > QuarterMeridian
     THEN \* !userLat (a latitude of 0 is falsy), or latitude out of [-90, 90]
          nearby' = [code |-> 400, origin |-> origin, radius |-> 0, now |-> now,
                     data |-> <<>>]
     ELSE \E bs \in FindNear(VisibleBarbers(barbers), origin, MaxDistance(radius)),
             ss \in FindNear(VisibleShops(barberShops), origin, MaxDistance(radius)) :
            nearby' = [code |-> 200, origin |-> origin, radius |-> MaxDistance(radius),
                       now |-> now,
                       data |-> SortByDistance(
                                  [i \in DOMAIN bs |-> Enrich(bs[i], TRUE, origin, now)] \o
                                  [i \in DOMAIN ss |-> Enrich(ss[i], FALSE, origin, now)])]
  /\ UNCHANGED <<docs, resp, emitted, highTicket, jreq, ops, calls, barbers, barberShops,
                 client>>

\* inputs of the discovery query and contents of the directory
Origins == {0, Home, Home + 90, QuarterMeridian + 1}
Radii == {NoRadius, 130, MaxRadius + 1}
Positions == {Home + 120, Home + 140, Home + DefaultRadius + 100}
BarberStatuses == {"active", "inactive", "temporarily-closed"}

\* a Barber document as sign-up stores it: shopId is unique and is held as the
\* number of the document; isOpen, openingTime and closingTime have the
\* schema's defaults
NewBarber(id, pos, status, isTestData) ==
  [id |-> id, shopId |-> id, pos |-> pos, status |-> status,
   isTestData |-> isTestData, isOpen |-> TRUE,
   openingTime |-> OpeningDefault, closingTime |-> ClosingDefault]

\* a BarberShop document as registration stores it; openingTime and closingTime
\* are the aliases of operatingHours.opening and operatingHours.closing
NewBarberShop(id, pos, isActive, isTestData) ==
  [id |-> id, shopId |-> id, pos |-> pos, isActive |-> isActive,
   isTestData |-> isTestData, isOpen |-> TRUE,
   openingTime |-> OpeningDefault, closingTime |-> ClosingDefault]

\* Barber collections of n documents; _ids are handed out alternately to the
\* two collections (odd here, even in BarberShop)
BarberLists(n) ==
  {[i \in 1..n |-> NewBarber(2 * i - 1, f[i][1], f[i][2], f[i][3])] :
     f \in [1..n -> Positions \X BarberStatuses \X BOOLEAN]}

\* BarberShop collections of n documents
ShopLists(n) ==
  {[i \in 1..n |-> NewBarberShop(2 * i, f[i][1], f[i][2], f[i][3])] :
     f \in [1..n -> Positions \X BOOLEAN \X BOOLEAN]}

\* a Barber collection with one listed shop more than a query page holds, all
\* of them within a few hundred metres of Home
CrowdedBarbers ==
  [i \in 1..(QueryLimit + 1) |-> NewBarber(2 * i - 1, Home + i, "active", FALSE)]

InitNearby ==
  /\ docs = <<>>
  /\ resp = Response("none", 0, 0, MainShop, 0, "none")
  /\ emitted = <<>>
  /\ highTicket = [s \in Shops |-> 0]
  /\ jreq = [e \in EmailsThree |-> IdleJoin]
  /\ ops = 0
  /\ calls = [h \in Handlers |-> IdleCall]
  /\ \/ /\ barbers \in UNION {BarberLists(n) : n \in 0..MaxListed}
        /\ barberShops \in UNION {ShopLists(n) : n \in 0..MaxListed}
     \/ /\ barbers = CrowdedBarbers
        /\ barberShops = <<>>
  /\ nearby = NoQuery
  /\ client = NewRealtimeService

NextNearby ==
  \E origin \in Origins, radius \in Radii : GetNearbyBarbers(origin, radius, Noon)

SpecNearby == InitNearby /\ [][NextNearby]_vars

\* ------------------------------------------------------ shop open status
\* Barber.findOne({shopId}), and BarberShop.findOne({shopId}) when the first
\* finds nothing: the collection and index of the document, or none
FindShop(shopId) ==
  LET inBarbers == {i \in DOMAIN barbers : barbers[i].shopId = shopId}
      inShops == {i \in DOMAIN barberShops : barberShops[i].shopId = shopId}
  IN  IF inBarbers # {}
      THEN [found |-> TRUE, isBarberModel |-> TRUE,
            at |-> CHOOSE i \in inBarbers : \A j \in inBarbers : i <= j]
      ELSE IF inShops # {}
      THEN [found |-> TRUE, isBarberModel |-> FALSE,
            at |-> CHOOSE i \in inShops : \A j \in inShops : i <= j]
      ELSE [found |-> FALSE, isBarberModel |-> FALSE, at |-> 0]

\* io.emit(type, {shopId, shopName, isOpen}): to every connected client
Broadcast(type, shopId, isOpen) ==
  [room |-> "*", type |-> type, shopId |-> shopId, isOpen |-> isOpen]

\* a save that writes nothing
SetIsOpenNotSaved(shop, isOpen) == shop

\* shop.isOpen = isOpen; await shop.save(): the document after the toggle
SetIsOpen(shop, isOpen) == [shop EXCEPT !.isOpen = isOpen]

\* PATCH /api/barbers/:shopId/toggle-status with body {isOpen}
ToggleShopStatus(shopId, isOpen) ==
  LET f == FindShop(shopId)
  IN  /\ IF ~f.found
         THEN /\ resp' = Response("toggle", 0, 0, MainShop, 404, "NotFound")
              /\ emitted' = <<>>
              /\ UNCHANGED <<barbers, barberShops>>
         ELSE /\ IF f.isBarberModel
                 THEN /\ barbers' = [barbers EXCEPT ![f.at] = SetIsOpen(@, isOpen)]
                      /\ UNCHANGED barberShops
                 ELSE /\ barberShops' =
                           [barberShops EXCEPT ![f.at] = SetIsOpen(@, isOpen)]
                      /\ UNCHANGED barbers
              /\ emitted' = <<Broadcast("shop-status-changed", shopId, isOpen)>>
              /\ resp' = Response("toggle", shopId, 0, MainShop, 200, "none")
      /\ UNCHANGED <<docs, highTicket, jreq, ops, calls, nearby, client>>

\* times of day around the default opening hours, and shop ids of which the
\* last names no shop
DayTimes == {OpeningDefault - 1, OpeningDefault, ClosingDefault, ClosingDefault + 1}
ShopIds == 1..3

\* one shop signed up and one registered by hand, both listed near Home and
\* neither toggled by its owner
InitStatus ==
  /\ docs = <<>>
  /\ resp = Response("none", 0, 0, MainShop, 0, "none")
  /\ emitted = <<>>
  /\ highTicket = [s \in Shops |-> 0]
  /\ jreq = [e \in EmailsThree |-> IdleJoin]
  /\ ops = 0
  /\ calls = [h \in Handlers |-> IdleCall]
  /\ barbers = <<NewBarber(1, Home + 120, "active", FALSE)>>
  /\ barberShops = <<NewBarberShop(2, Home + 140, TRUE, FALSE)>>
  /\ nearby = NoQuery
  /\ client = NewRealtimeService

NextStatus ==
  \/ \E shopId \in ShopIds, isOpen \in BOOLEAN : ToggleShopStatus(shopId, isOpen)
  \/ \E origin \in {0, Home}, now \in DayTimes : GetNearbyBarbers(origin, NoRadius, now)

SpecStatus == InitStatus /\ [][NextStatus]_vars

\* ------------------------------------------------------- realtime client
\* stopPolling(shopId) on service state c
StopPolling(c, shopId) ==
  IF shopId \in c.pollingIntervals
  THEN [c EXCEPT !.timers[shopId] = @ - 1, !.pollingIntervals = @ \ {shopId}]
  ELSE c

\* startPolling(shopId, callback): clears the shop's interval, then sets one
StartPolling(c, shopId) ==
  LET d == StopPolling(c, shopId)
  IN  [d EXCEPT !.timers[shopId] = @ + 1, !.pollingIntervals = @ \cup {shopId}]

\* stopAllPolling()
StopAllPolling(c) ==
  [c EXCEPT !.timers = [s \in Shops |-> IF s \in c.pollingIntervals
                                          THEN c.timers[s] - 1 ELSE c.timers[s]],
            !.pollingIntervals = {}]

\* the rest of the model stays as it is while the client takes a step
ServerUnchanged ==
  UNCHANGED <<docs, resp, emitted, highTicket, jreq, ops, calls, directory>>

\* connect(): io(SOCKET_URL, ...) and the four handlers; called once
Connect ==
  /\ ~client.socket
  /\ client' = [client EXCEPT !.socket = TRUE]
  /\ ServerUnchanged

\* the socket's connect event; the server holds a new connection in the rooms
\* its buffered join-shop packets name
OnConnect ==
  /\ client.socket /\ client.link # "connected"
  /\ client' = StopAllPolling([client EXCEPT !.link = "connected",
                                             !.rooms = client.sendBuffer,
                                             !.sendBuffer = {},
                                             !.isConnected = TRUE,
                                             !.usePolling = FALSE,
                                             !.reconnectAttempts = 0])
  /\ ServerUnchanged

DisconnectReasons == {"io server disconnect", "transport close", "ping timeout"}

\* the socket's disconnect event; the server drops the connection's rooms
OnDisconnect(reason) ==
  /\ client.link = "connected"
  /\ client' = [client EXCEPT !.link = "down", !.rooms = {},
                              !.isConnected = FALSE,
                              !.usePolling =
                                 IF reason \in {"io server disconnect", "transport close"}
                                 THEN TRUE ELSE @]
  /\ ServerUnchanged

\* the socket's connect_error event; the manager gives up after
\* reconnectionAttempts failures
OnConnectError ==
  /\ client.socket /\ client.link = "down"
  /\ client.reconnectAttempts < MaxReconnectAttempts
  /\ client' = [client EXCEPT !.reconnectAttempts = @ + 1,
                              !.usePolling =
                                 IF client.reconnectAttempts + 1 >= MaxReconnectAttempts
                                 THEN TRUE ELSE @]
  /\ ServerUnchanged

\* the reconnect event, which precedes the namespace's connect event
OnReconnect ==
  /\ client.socket /\ client.link = "down"
  /\ client' = [client EXCEPT !.link = "open", !.isConnected = TRUE,
                              !.usePolling = FALSE, !.reconnectAttempts = 0]
  /\ ServerUnchanged

\* subscribeToQueue(shopId, callback), by a page that holds no subscription
\* to the shop
SubscribeToQueue(shopId) ==
  /\ shopId \notin client.subscribed
  /\ client.listeners[shopId] < MaxListeners
  /\ LET c == [client EXCEPT !.subscribed = @ \cup {shopId}]
     IN  client' =
           IF client.isConnected /\ ~client.usePolling
           THEN [c EXCEPT !.rooms = IF client.link = "connected"
                                    THEN @ \cup {shopId} ELSE @,
                          !.sendBuffer = IF client.link = "connected"
                                         THEN @ ELSE @ \cup {shopId},
                          !.listeners[shopId] = @ + 1]
           ELSE StartPolling(c, shopId)
  /\ ServerUnchanged

\* unsubscribeFromQueue(shopId): the server has no handler for leave-queue,
\* and off names the event queue-update-<shopId>, on which nothing listens
UnsubscribeFromQueue(shopId) ==
  /\ shopId \in client.subscribed
  /\ client' = StopPolling([client EXCEPT !.subscribed = @ \ {shopId}], shopId)
  /\ ServerUnchanged

NextRealtime ==
  \/ Connect
  \/ OnConnect
  \/ \E reason \in DisconnectReasons : OnDisconnect(reason)
  \/ OnConnectError
  \/ OnReconnect
  \/ \E shopId \in Shops : SubscribeToQueue(shopId)
  \/ \E shopId \in Shops : UnsubscribeFromQueue(shopId)

SpecRealtime == Init /\ [][NextRealtime]_vars

\* ------------------------------------------------------------ observations

\* C1: N joins by N distinct customers on an initially empty shop, interleaved
\* at their store reads and writes, all succeed with tickets exactly 1..N, and
\* no two entries of one shop ever hold the same ticket number.
C1_ConcurrentJoinsGetDistinctTickets ==
  /\ \A i, j \in Ids(docs) :
        (i # j /\ docs[i].shopId = docs[j].shopId /\ docs[i].tokenNumber > 0)
          => docs[i].tokenNumber # docs[j].tokenNumber
  /\ (\A e \in EmailsThree : jreq[e].pc = "done" /\ jreq[e].shop = JoinedShop)
       => /\ \A e \in EmailsThree : jreq[e].code = 201
          /\ {docs[i].tokenNumber : i \in Ids(docs)} = 1..Cardinality(EmailsThree)

\* the entry the last response is about, as the response body reports it
\* (joinQueue lines 73-78 read the document findOneAndUpdate returned)
RespEntry == docs[resp.id]

Succeeded(op) == resp.op = op /\ resp.code \in {200, 201}

\* entries of shop s that are waiting and hold a ticket number
TicketedWaiting(s) == {i \in WaitingIds(docs, s) : docs[i].tokenNumber > 0}

PositionsContiguous(s) ==
  {docs[i].queuePosition : i \in WaitingIds(docs, s)} = 1..Cardinality(WaitingIds(docs, s))

PositionOrderIsTicketOrder(s) ==
  \A i, j \in TicketedWaiting(s) :
     (docs[i].queuePosition < docs[j].queuePosition)
       <=> (docs[i].tokenNumber < docs[j].tokenNumber)

\* C3: after a Complete or a Cancel the waiting entries of the shop hold
\* positions exactly 1..M and position order equals ticket-number order.
C3_PositionsAfterRemoval ==
  (Succeeded("complete") \/ Succeeded("cancel")) =>
     LET s == emitted[1].shopId
     IN  s # MainShop => (PositionsContiguous(s) /\ PositionOrderIsTicketOrder(s))

\* the customer has joined a queue and is still in it
HoldsActiveTicket(D, e) ==
  \E i \in ByEmail(D, e) : D[i].status \in ActiveStatuses /\ D[i].tokenNumber > 0

\* C2: the ticket number a Join returns is strictly greater than every ticket
\* number an earlier Join returned for that shop, removals included.  Stated
\* for a customer who holds no active ticket when joining.
C2_TicketsNeverReused ==
  [][(resp'.op = "join" /\ resp'.code = 201 /\ ~HoldsActiveTicket(docs, resp'.by))
       => docs'[resp'.id].tokenNumber > highTicket[docs'[resp'.id].shopId]]_vars

\* C4: an entry whose status is completed or cancelled never changes status.
\* Stated for entries that have been in a queue (their token was assigned).
C4_TerminalStatusIsFinal ==
  [][\A i \in Ids(docs) :
       (docs[i].status \in TerminalStatuses /\ docs[i].tokenNumber # NoToken)
         => docs'[i].status = docs[i].status]_vars

\* C5: Complete on an entry that is not in-service fails and changes nothing,
\* and no entry goes from waiting to completed in one step.  Stated for
\* entries that hold or held a ticket.
C5_CompleteRequiresInService ==
  [][/\ (resp'.op = "complete" /\ resp'.id \in Ids(docs)
          /\ docs[resp'.id].tokenNumber # NoToken
          /\ docs[resp'.id].status # "in-service")
        => (resp'.code >= 400 /\ docs' = docs /\ emitted' = <<>>)
     /\ \A i \in Ids(docs) :
          (docs[i].status = "waiting" /\ docs[i].tokenNumber > 0)
            => docs'[i].status # "completed"]_vars

\* C6: Serve on a completed, cancelled or in-service entry fails with
\* NotInWaitingState, Serve on an unknown id fails with NotFound; either way
\* no document changes and no event is emitted.
C6_ServeRejectsNonWaiting ==
  [][resp'.op = "serve" =>
       /\ resp'.id \notin Ids(docs)
            => (resp'.code = 404 /\ resp'.err = "NotFound"
                /\ docs' = docs /\ emitted' = <<>>)
       /\ (resp'.id \in Ids(docs) /\ docs[resp'.id].status # "waiting")
            => (resp'.code = 400 /\ resp'.err = "NotInWaitingState"
                /\ docs' = docs /\ emitted' = <<>>)]_vars

\* a Serve of a completed entry has just been rejected
C6_ServeOfCompletedRejected ==
  /\ resp.op = "serve" /\ resp.code = 400
  /\ docs[resp.id].status = "completed"
  /\ docs[resp.id].tokenNumber > 0
  /\ docs[resp.id].serviceStartedAt # NoDate

\* C7: Cancel by a customer who does not own the entry fails with Forbidden
\* whatever the entry's status; no document changes and no event is emitted.
C7_CancelByNonOwnerForbidden ==
  [][(resp'.op = "cancel" /\ resp'.id \in Ids(docs)
        /\ docs[resp'.id].email # resp'.by)
       => (resp'.code = 403 /\ resp'.err = "Forbidden"
           /\ docs' = docs /\ emitted' = <<>>)]_vars

\* a non-owner's Cancel of an entry that is not waiting has just been rejected
C7_NonOwnerCancelRejected ==
  /\ resp.op = "cancel" /\ resp.code = 403
  /\ docs[resp.id].email # resp.by
  /\ docs[resp.id].status = "in-service"
  /\ docs[resp.id].tokenNumber > 0

\* C8: Join by a customer who holds a waiting or in-service entry fails and
\* changes nothing.
C8_DuplicateJoinRejected ==
  [][(resp'.op = "join" /\ HoldsActiveTicket(docs, resp'.by))
       => (resp'.code >= 400 /\ docs' = docs /\ emitted' = <<>>)]_vars

\* C9: each customer has at most one waiting or in-service entry, all shops
\* counted.
C9_OneActiveEntryPerCustomer ==
  \A e \in EmailsThree :
     Cardinality({i \in ByEmail(docs, e) : docs[i].status \in ActiveStatuses}) <= 1

\* a customer who held a ticket at one shop has just joined the other shop
C9_JoinedSecondShop ==
  /\ resp.op = "join" /\ resp.code = 201
  /\ docs[resp.id].shopId = MainShop
  /\ highTicket[JoinedShop] > 0
  /\ \A i \in Ids(docs) \ {resp.id} : docs[i].tokenNumber = NoToken

\* C10: the position a Join returns is the number of waiting entries of the
\* shop after the insertion, in-service entries not counted.  Stated for a
\* customer who held no active ticket, joining a shop other than the default.
C10_JoinPositionIsWaitingCount ==
  [][(resp'.op = "join" /\ resp'.code = 201 /\ ~HoldsActiveTicket(docs, resp'.by)
        /\ docs'[resp'.id].shopId # MainShop)
       => docs'[resp'.id].queuePosition
            = Cardinality(WaitingIds(docs', docs'[resp'.id].shopId))]_vars

\* C11: the estimated wait a Join returns and stores equals the returned
\* position times the average service time, for a first join and for a join
\* after an earlier visit.
C11_JoinEstimateIsPositionTimesAverage ==
  [][(resp'.op = "join" /\ resp'.code = 201)
       => docs'[resp'.id].estimatedWaitTime
            = docs'[resp'.id].queuePosition * AvgServiceTime]_vars

\* C12: a successful Serve changes only the served entry's status and
\* service-start timestamp; every other entry, and every shop's queue length
\* (waiting + in-service), is as before.
C12_ServeChangesOnlyServedEntry ==
  [][(resp'.op = "serve" /\ resp'.code = 200) =>
       /\ Len(docs') = Len(docs)
       /\ \A i \in Ids(docs) \ {resp'.id} : docs'[i] = docs[i]
       /\ docs'[resp'.id] =
            [docs[resp'.id] EXCEPT !.status = docs'[resp'.id].status,
                                   !.serviceStartedAt = docs'[resp'.id].serviceStartedAt]
       /\ \A s \in Shops : QueueCount(docs', s) = QueueCount(docs, s)]_vars

\* a Serve has just succeeded at a shop where another ticket holder waits
C12_ServedWhileAnotherWaits ==
  /\ resp.op = "serve" /\ resp.code = 200
  /\ docs[resp.id].status = "in-service" /\ docs[resp.id].tokenNumber > 0
  /\ docs[resp.id].queuePosition > 0
  /\ \E i \in Ids(docs) \ {resp.id} :
       /\ docs[i].shopId = docs[resp.id].shopId
       /\ docs[i].status = "waiting" /\ docs[i].tokenNumber > 0

\* what shop b holds: its entries that have been queued (a ticket was assigned
\* at some time), each with status, ticket number and position
ShopEntries(D, b) ==
  {<<i, D[i].status, D[i].tokenNumber, D[i].queuePosition>> :
     i \in {j \in Ids(D) : D[j].shopId = b /\ D[j].tokenNumber # NoToken}}

\* queue length of shop b: its waiting and in-service entries that were queued
QueueLength(D, b) ==
  Cardinality({x \in ShopEntries(D, b) : x[2] \in ActiveStatuses})

\* C13: a Join, Serve, Complete or Cancel addressed to shop A leaves every
\* other shop B as it was: B's entries with their statuses, ticket numbers and
\* positions, and B's queue length.
C13_OtherShopsUnchanged ==
  [][(resp'.op \in {"join", "serve", "complete", "cancel"} /\ emitted' # <<>>) =>
       \A b \in Shops \ {emitted'[1].shopId} :
          /\ ShopEntries(docs', b) = ShopEntries(docs, b)
          /\ QueueLength(docs', b) = QueueLength(docs, b)]_vars

\* C14: when a store write inside Join, Serve, Complete or Cancel fails, the
\* handler reports an error and the documents and events are as before the
\* call; when the handler succeeds, its event is emitted and the waiting
\* entries of the shop hold positions 1..M.  Stated for a Complete of an
\* in-service ticket holder and a Cancel of a waiting one, at a shop other
\* than the default.
C14_NoPartialApplication ==
  [][(/\ resp'.op \in {"join", "serve", "complete", "cancel"}
      /\ resp'.op \in {"complete", "cancel"} =>
           /\ resp'.id \in Ids(docs)
           /\ docs[resp'.id].tokenNumber > 0
           /\ docs[resp'.id].shopId # MainShop
           /\ docs[resp'.id].status =
                (IF resp'.op = "complete" THEN "in-service" ELSE "waiting"))
       => /\ resp'.code >= 400 => (docs' = docs /\ emitted' = <<>>)
          /\ (resp'.code = 200 /\ resp'.op \in {"complete", "cancel"})
               => /\ emitted' # <<>>
                  /\ LET W == WaitingIds(docs', emitted'[1].shopId)
                     IN  {docs'[i].queuePosition : i \in W} = 1..Cardinality(W)]_vars

\* C15: entries of a shop enter in-service in the order they joined: a Serve
\* succeeds only on the waiting entry with the smallest ticket number of its
\* shop.
C15_ServeInTicketOrder ==
  [][(resp'.op = "serve" /\ resp'.code = 200 /\ docs[resp'.id].tokenNumber > 0) =>
       \A i \in WaitingIds(docs, docs[resp'.id].shopId) :
          docs[i].tokenNumber > 0 => docs[resp'.id].tokenNumber <= docs[i].tokenNumber]_vars

\* C16: the position recompute is idempotent: in every reachable state, and
\* for every shop, running it on the result of one run changes nothing (same
\* position and estimated wait for every entry).
C16_RecomputeIdempotent ==
  \A s \in Shops :
     \A once \in UpdateQueuePositions(docs, s) :
        UpdateQueuePositions(once, s) = {once}

\* two entries wait at one shop under the same stored position, so that a
\* recompute renumbers them and the store's order decides how
C16_RecomputeRenumbersTiedEntries ==
  /\ Cardinality(UpdateQueuePositions(docs, JoinedShop)) > 1
  /\ \A once \in UpdateQueuePositions(docs, JoinedShop) : once # docs
  /\ \A i \in WaitingIds(docs, JoinedShop) : docs[i].tokenNumber > 0

\* C17: Cancel goes ahead only on a waiting entry that the requester owns, and
\* in every reachable state, under any interleaving of the handlers' store
\* calls, every cancelled entry has no ticket number and position 0.
C17_CancelledEntriesAreCleared ==
  /\ calls["cancel"].pc # "idle" =>
       (calls["cancel"].snap.status = "waiting"
        /\ calls["cancel"].snap.email = calls["cancel"].by)
  /\ \A i \in Ids(docs) :
       docs[i].status = "cancelled" =>
         (docs[i].tokenNumber \in {NoToken, NullToken} /\ docs[i].queuePosition = 0)

\* the exact distance from the origin of an element of the response
ExactOf(x) == ExactDistance(x.pos, nearby.origin)

C19_NearbyOrderedByExactDistanceThenId ==
  nearby.code = 200 =>
    \A i, j \in DOMAIN nearby.data :
       i < j => \/ ExactOf(nearby.data[i]) < ExactOf(nearby.data[j])
                \/ /\ ExactOf(nearby.data[i]) = ExactOf(nearby.data[j])
                   /\ nearby.data[i].id < nearby.data[j].id

\* the shops a query for the origin and radius of the last response is to
\* return: listed (active, not test data) and within the radius
Listed(origin, radius) ==
  {barbers[i].id : i \in {j \in DOMAIN barbers :
      BarberVisible(barbers[j]) /\ ExactDistance(barbers[j].pos, origin) <= radius}}
  \cup
  {barberShops[i].id : i \in {j \in DOMAIN barberShops :
      ShopVisible(barberShops[j]) /\ ExactDistance(barberShops[j].pos, origin) <= radius}}

\* C20: findNearby returns every shop that is active, not test data and within
\* the radius, from either collection and however many there are, and returns
\* no inactive or test-data shop.
C20_NearbyReturnsEveryListedShop ==
  nearby.code = 200 =>
    {nearby.data[i].id : i \in DOMAIN nearby.data} = Listed(nearby.origin, nearby.radius)

\* C21: findNearby rejects a request (400, before any store query) exactly
\* when the latitude is out of [-90, 90]; every in-range origin, latitude 0
\* and the boundary values included, is accepted.
C21_RejectsExactlyOutOfRangeOrigins ==
  nearby.code # 0 =>
    (nearby.code = 400 <=> Abs(nearby.origin) > QuarterMeridian)

\* C22: the discovery query at GET /api/barbers/nearby rejects every radius
\* below 0 or above 50000 metres and never runs the geo query with one.
C22_GeoQueryRadiusWithinLimit ==
  nearby.code = 200 => (nearby.radius >= 0 /\ nearby.radius <= MaxRadius)

\* the stored document a discovery result x was built from
StoredShop(x) ==
  IF x.isBarberModel
  THEN CHOOSE b \in {barbers[i] : i \in DOMAIN barbers} : b.id = x.id
  ELSE CHOOSE b \in {barberShops[i] : i \in DOMAIN barberShops} : b.id = x.id

\* C23: the isOpen a discovery query reports for a shop is the shop's manual
\* flag when the owner has set it, and otherwise says whether the time of the
\* query lies within the shop's opening hours, both ends included; while no
\* owner has toggled anything, every shop is reported by its hours.
C23_OpenStatusIsFlagElseHours ==
  [][(nearby' # nearby /\ nearby'.code = 200) =>
       \A i \in DOMAIN nearby'.data :
          LET x == nearby'.data[i]
          IN  /\ resp.op # "toggle" =>
                   x.isOpen = IsWithinHours(StoredShop(x), nearby'.now)
              /\ (resp.op = "toggle" /\ resp.code = 200 /\ resp.id = x.shopId) =>
                   x.isOpen = emitted[1].isOpen]_vars

\* C24: a ToggleShopStatus(shopId, v) that finds the shop stores v as its
\* isOpen, changes no other shop, answers 200 and emits exactly one
\* shop-status-changed event carrying v to every client; one that finds the
\* shop in neither collection answers 404, changes no shop and emits nothing.
C24_ToggleStoresAndBroadcasts ==
  [][\A shopId \in ShopIds, v \in BOOLEAN :
       ToggleShopStatus(shopId, v) =>
         LET f == FindShop(shopId)
         IN  IF f.found
             THEN /\ resp'.code = 200
                  /\ \A i \in DOMAIN barbers :
                       barbers'[i].isOpen =
                         IF barbers[i].shopId = shopId THEN v ELSE barbers[i].isOpen
                  /\ \A i \in DOMAIN barberShops :
                       barberShops'[i].isOpen =
                         IF barberShops[i].shopId = shopId THEN v
                         ELSE barberShops[i].isOpen
                  /\ emitted' = <<Broadcast("shop-status-changed", shopId, v)>>
             ELSE /\ resp'.code = 404 /\ resp'.err = "NotFound"
                  /\ UNCHANGED <<barbers, barberShops>>
                  /\ emitted' = <<>>]_vars

\* a hand-registered shop has been closed by its owner and the event is out
C24_ShopClosedByToggle ==
  /\ resp.op = "toggle" /\ resp.code = 200 /\ resp.id = 2
  /\ barberShops[1].isOpen = FALSE /\ barbers[1].isOpen = TRUE
  /\ Len(emitted) = 1 /\ emitted[1].isOpen = FALSE /\ emitted[1].room = "*"

\* C25: whenever no Cancel or Complete is in flight, however the store calls
\* of two concurrent removals were interleaved, the waiting entries of the
\* shop hold positions 1..M in ticket order and every cancelled entry still
\* has the position 0 its removal gave it.
C25_ConcurrentRemovalsLeaveSequentialState ==
  (\A h \in Handlers : calls[h].pc = "idle") =>
     /\ PositionsContiguous(JoinedShop)
     /\ PositionOrderIsTicketOrder(JoinedShop)
     /\ \A i \in Ids(docs) : docs[i].status = "cancelled" => docs[i].queuePosition = 0

\* C26: once a Join and the Cancel or Complete it ran alongside have both
\* returned, the entries of the shop are as one of the two sequential orders
\* leaves them: the joined entry is waiting with a ticket, and the waiting
\* entries hold positions 1..M in ticket order.
C26_JoinLinearizableWithRemoval ==
  (/\ jreq[Joiner].pc = "done" /\ jreq[Joiner].code = 201
   /\ \A h \in Handlers : calls[h].pc = "idle") =>
     /\ PositionsContiguous(JoinedShop)
     /\ PositionOrderIsTicketOrder(JoinedShop)

\* C27: of a Cancel and a Serve issued together on one waiting entry only one
\* takes effect: no entry is cancelled after its service was started, and no
\* in-service entry has lost its ticket number.
C27_CancelAndServeExcludeEachOther ==
  \A i \in Ids(docs) :
     /\ docs[i].status = "cancelled" => docs[i].serviceStartedAt = NoDate
     /\ docs[i].status = "in-service" => docs[i].tokenNumber > 0

\* ------------------------------------------------------------ status reads
\* the shopId query parameter left out
NoShop == ""

\* const { shopId = 'main-shop' } = req.query
QueryShop(q) == IF q = NoShop THEN MainShop ELSE q

\* Customer.getCurrentQueue(shopId): the documents GET /api/queue/list returns
GetCurrentQueue(D, s) ==
  {i \in Ids(D) : D[i].shopId = s /\ D[i].status \in ActiveStatuses}

\* GET /api/queue/my-queue: the document found for the caller's e-mail (0 when
\* data is null) and the queuePosition the response carries
GetMyQueueStatus(D, e) ==
  LET active == {i \in ByEmail(D, e) : D[i].status \in ActiveStatuses}
  IN  IF active = {}
      THEN [code |-> 200, id |-> 0, queuePosition |-> 0]
      ELSE LET i == CHOOSE j \in active : TRUE
           IN  [code |-> 200, id |-> i,
                queuePosition |->
                  IF D[i].status = "waiting"
                  THEN Cardinality({j \in WaitingIds(D, D[i].shopId) :
                                      D[j].queuePosition < D[i].queuePosition}) + 1
                  ELSE D[i].queuePosition]

\* GET /api/queue/status/:id?shopId=q, for the id of a stored document:
\* findById finds it and the lookup by token number is not reached
GetCustomerStatus(D, id, q) ==
  [code |-> 200, id |-> id,
   queuePosition |->
     IF D[id].status = "waiting"
     THEN Cardinality({j \in WaitingIds(D, QueryShop(q)) :
                         D[j].queuePosition <= D[id].queuePosition})
     ELSE D[id].queuePosition]

\* C28: an account that has signed up and never joined a queue is no queue
\* entry: no shop's current queue lists it, no shop's queue length counts it,
\* and my-queue reports no active entry for it.
C28_NeverJoinedAccountIsNoEntry ==
  \A i \in Ids(docs) :
     docs[i].tokenNumber = NoToken =>
       /\ \A s \in Shops : i \notin GetCurrentQueue(docs, s)
       /\ \A s \in Shops : QueueCount(docs, s) = QueueLength(docs, s)
       /\ GetMyQueueStatus(docs, docs[i].email).id = 0

\* the 1-based rank of waiting entry i among the waiting entries of its shop,
\* in ticket order
Rank(D, i) ==
  Cardinality({j \in WaitingIds(D, D[i].shopId) :
                 D[j].tokenNumber > 0 /\ D[j].tokenNumber <= D[i].tokenNumber})

\* C29: for every waiting entry, my-queue and status-by-id, the latter with
\* the entry's shop, another shop or no shop in the query, report the same
\* position, and that position is the entry's rank among the waiting entries
\* of its shop.
C29_StatusReadsAgreeOnRank ==
  \A i \in Ids(docs) :
     (docs[i].status = "waiting" /\ docs[i].tokenNumber > 0) =>
       \A q \in Shops \cup {NoShop} :
          /\ GetMyQueueStatus(docs, docs[i].email).queuePosition
               = GetCustomerStatus(docs, i, q).queuePosition
          /\ GetCustomerStatus(docs, i, q).queuePosition = Rank(docs, i)

\* C30: while a page is subscribed to a shop's queue, whatever connect,
\* disconnect, connect_error and reconnect events have occurred, either the
\* socket is connected, in the shop's room, with the callback listening for
\* queue-update, or a polling timer runs for the shop; and no shop ever has
\* more than one polling timer.
C30_SubscriptionAlwaysServed ==
  /\ \A s \in client.subscribed :
        \/ /\ client.link = "connected" /\ s \in client.rooms
           /\ client.listeners[s] >= 1
        \/ client.timers[s] >= 1
  /\ \A s \in Shops : client.timers[s] <= 1
====
